---- MODULE Spec2Model ----
(***************************************************************************)
(* A model of asciify: the colour codec (colour/term.go), the glyph mapper *)
(* (convert), and the resampler's size computation (scale).                *)
(*                                                                         *)
(* Strings are sequences of runes (a Go rune is an integer code point).    *)
(* A *Colour256 is a sequence of length 0 (nil) or 1 (a pointer to the     *)
(* triple).  A float64 scale factor is a rational [n, d] with d > 0.       *)
(***************************************************************************)
EXTENDS Integers, Sequences, FiniteSets, TLC

VARIABLES
    \* one pixel through convertRow / convertRowColour / FromColor
    px, reverse, plainPC, colourPC, oneFilePC, fromColor, pxDone,
    \* Colour256.Hex and FromHex
    col, hexStr, fromHex, hexPc,
    \* one call of ImgToASCII / ImgToASCIIColoured / ImgToPreview
    fn, img, max, negative, invert, single,
    mainPc, y, wg, ch, chClosed, doneClosed, matrix, worker, collector,
    result, panicked,
    \* the writes made to each cell of the matrix so far: the (x, y) of the
    \* message each write was made for
    writes,
    \* one call into package scale
    entry, opts, src, imgOpts, dst, scPc,
    \* one run of a command's main up to its call into package scale
    cli, args, files, conf, valErr, opened, cliPc,
    \* one call of scale.File, scale.FileToWindow or scale.Raw
    fileIn, fileOut, filePc,
    \* one run of asciicam: main, its signal goroutine, the signals sent to
    \* the process and the camera's output channel
    camMain, sigHandler, sCh, sChClosed, notified, ctxCancelled, doneCloses,
    output, outputClosed, frames, signals, process

pixVars == <<px, reverse, plainPC, colourPC, oneFilePC, fromColor, pxDone>>
hexVars == <<col, hexStr, fromHex, hexPc>>
convVars ==
    <<fn, img, max, negative, invert, single, mainPc, y, wg, ch, chClosed,
      doneClosed, matrix, worker, collector, result, panicked, writes>>
scaleVars == <<entry, opts, src, imgOpts, dst, scPc>>
valVars == <<cli, args, files, conf, valErr, opened, cliPc>>
fileVars == <<fileIn, fileOut, filePc>>
camVars ==
    <<camMain, sigHandler, sCh, sChClosed, notified, ctxCancelled, doneCloses,
      output, outputClosed, frames, signals, process>>
vars == <<pixVars, hexVars, convVars, scaleVars, valVars, fileVars, camVars>>

----------------------------------------------------------------------------
(* Bounds of the model *)

\* number of equal steps the channel range 0..65535 is sampled in
MaxLevel == 3
\* number of equal steps the byte range 0..255 is sampled in
MaxByteLevel == 3
\* largest image width, height and number of pixels converted
MaxW == 3
MaxH == 3
MaxCells == 6
\* largest source width and height scaled, largest Width and Height asked
\* for, and the largest Factor asked for, in halves
MaxSrc == 4
MaxDim == 3
MaxFactorHalves == 3
\* most signals sent to an asciicam process, most frames its camera delivers
MaxSignals == 3
MaxFrames == 2

----------------------------------------------------------------------------
(* Constants of the program *)

\* a channel of color.Color.RGBA() is in 0..0xffff
MaxChannel == 65535

\* "Ñ@#W$9876543210?!abc;:+=-,._ " as runes
ASCIIChars ==
    << 209, 64, 35, 87, 36, 57, 56, 55, 54, 53, 52, 51, 50, 49, 48,
       63, 33, 97, 98, 99, 59, 58, 43, 61, 45, 44, 46, 95, 32 >>

cLen == Len(ASCIIChars)

\* "\033[0m"
ResetColour == << 27, 91, 48, 109 >>

\* int(float64(s) / CharStep) with CharStep = float64((65535.0 * 3.0) / 29.0).
\* For every s in 0..196605 the float64 quotient truncates to the exact
\* floor(s * 29 / 196605): the only integral exact quotients are 0 and 29
\* (29 does not divide 196605), and float64(196605)/CharStep is exactly 29.0.
DivCharStep(s) == (s * 29) \div (MaxChannel * 3)

----------------------------------------------------------------------------
(* colour/term.go *)

Nil == << >>
Ptr(c) == << c >>

Uint8(n) == n % 256

FromColorNoNil(p) ==
    Ptr([R |-> Uint8(p.r \div 256), G |-> Uint8(p.g \div 256), B |-> Uint8(p.b \div 256)])

FromColorBy257(p) ==
    IF p.a = 0 THEN Nil
    ELSE Ptr([R |-> Uint8(p.r \div 257), G |-> Uint8(p.g \div 257), B |-> Uint8(p.b \div 257)])

\* FromColor: nil for a == 0, else each channel / 256 as uint8
FromColor(p) ==
    IF p.a = 0 THEN Nil
    ELSE Ptr([R |-> Uint8(p.r \div 256), G |-> Uint8(p.g \div 256), B |-> Uint8(p.b \div 256)])

\* fmt's %d of a non-negative integer
RECURSIVE Dec(_)
Dec(n) == IF n < 10 THEN << 48 + n >> ELSE Dec(n \div 10) \o << 48 + (n % 10) >>

\* fmt.Sprintf("\033[48;2;%d;%d;%dm", c.R, c.G, c.B)
TrueEsc(c) ==
    << 27, 91, 52, 56, 59, 50, 59 >> \o Dec(c.R) \o << 59 >> \o Dec(c.G)
        \o << 59 >> \o Dec(c.B) \o << 109 >>

\* one lower-case hexadecimal digit
HexDigit(n) == IF n < 10 THEN 48 + n ELSE 87 + n

\* fmt's %02x of a uint8
Hex02(n) == << HexDigit(n \div 16), HexDigit(n % 16) >>

\* fmt.Sprintf("0x%02x%02x%02x", c.R, c.G, c.B)
Hex(c) == << 48, 120 >> \o Hex02(c.R) \o Hex02(c.G) \o Hex02(c.B)

\* strconv.ParseUint's digit value of a rune: '0'..'9', then lower(c) in
\* 'a'..'z' (lower(c) = c | 0x20); anything else is no digit (-1)
DigitVal(c) ==
    IF c >= 48 /\ c <= 57 THEN c - 48
    ELSE IF c >= 97 /\ c <= 122 THEN c - 97 + 10
    ELSE IF c >= 65 /\ c <= 90 THEN c - 65 + 10
    ELSE -1

\* strconv.ParseUint(s, 16, 32): with an explicit base no "0x" prefix is
\* stripped and no underscore is accepted (both only for base 0); a rune that
\* is no digit of the base is a syntax error.  n * 16 + d exceeds 2^32 - 1
\* exactly when n >= 2^28.  The result is [val, err] with err one of "nil",
\* "syntax", "range".
RECURSIVE ParseDigits(_, _, _)
ParseDigits(s, i, n) ==
    IF i > Len(s) THEN [val |-> n, err |-> "nil"]
    ELSE LET d == DigitVal(s[i]) IN
         IF d < 0 \/ d >= 16 THEN [val |-> 0, err |-> "syntax"]
         ELSE IF n >= 268435456 THEN [val |-> 0, err |-> "range"]
         ELSE ParseDigits(s, i + 1, n * 16 + d)

ParseUint16(s) ==
    IF Len(s) = 0 THEN [val |-> 0, err |-> "syntax"]
    ELSE ParseDigits(s, 1, 0)

\* FromHex: (nil, err) on a parse error, else the three bytes of the value
FromHex(hex) ==
    LET p == ParseUint16(hex) IN
    IF p.err # "nil" THEN [c |-> Nil, err |-> p.err]
    ELSE [c |-> Ptr([R |-> Uint8(p.val \div 65536),
                     G |-> (p.val \div 256) % 256,
                     B |-> p.val % 256]),
          err |-> "nil"]

----------------------------------------------------------------------------
(* convert: the glyph of one pixel *)

ToneIndexNoAlpha(p, rev) ==
    LET i == DivCharStep(p.r + p.g + p.b) IN
    IF ~rev THEN cLen - i ELSE i

ToneIndexOffByOne(p, rev) ==
    IF p.a = 0 THEN cLen - 1
    ELSE LET i == DivCharStep(p.r + p.g + p.b) IN
         IF ~rev THEN cLen - 1 - i ELSE i

\* convertRow's i for one pixel, before the i % cLen of the lookup
ToneIndex(p, rev) ==
    IF p.a = 0 THEN cLen - 1
    ELSE LET i == DivCharStep(p.r + p.g + p.b) IN
         IF ~rev THEN cLen - i ELSE i

\* convertRowColour's i for one pixel (the same text as convertRow's)
ToneIndexColour(p, rev) ==
    IF p.a = 0 THEN cLen - 1
    ELSE LET i == DivCharStep(p.r + p.g + p.b) IN
         IF ~rev THEN cLen - i ELSE i

\* the PixelChar convertRow sends for pixel p at (x, y)
PixelChar(p, x, yy, rev) ==
    [char |-> ASCIIChars[(ToneIndex(p, rev) % cLen) + 1], x |-> x, y |-> yy]

\* the ColourPixelChar convertRowColour sends for pixel p at (x, y)
ColourPixelChar(p, x, yy, rev) ==
    [char |-> ASCIIChars[(ToneIndexColour(p, rev) % cLen) + 1], x |-> x, y |-> yy,
     c |-> FromColor(p)]

\* the ColourPixelChar rowColours sends: no glyph (the zero rune)
PreviewPixelChar(p, x, yy) ==
    [char |-> 0, x |-> x, y |-> yy, c |-> FromColor(p)]

\* main.go's ramp, as its source text reads: 30 runes, the first two being
\* U+00C3 and U+2018
OneFileASCIIChars ==
    << 195, 8216, 64, 35, 87, 36, 57, 56, 55, 54, 53, 52, 51, 50, 49, 48,
       63, 33, 97, 98, 99, 59, 58, 43, 61, 45, 44, 46, 95, 32 >>

\* main.go's CharStep = 34 * 257, an integer
OneFileCharStep == 8738

\* main.go's convertRow's i for one pixel, before the modulo of the lookup
OneFileToneIndex(p, rev) ==
    IF p.a = 0 THEN Len(OneFileASCIIChars) - 1
    ELSE LET i == (p.r + p.g + p.b) \div OneFileCharStep IN
         IF ~rev THEN Len(OneFileASCIIChars) - i ELSE i

\* the PixelChar main.go's convertRow sends for pixel p at (x, y)
OneFilePixelChar(p, x, yy, rev) ==
    [char |-> OneFileASCIIChars[(OneFileToneIndex(p, rev) % Len(OneFileASCIIChars)) + 1],
     x |-> x, y |-> yy]

\* the place of a glyph in the ramp (the glyphs are pairwise distinct)
RampIndex(char) == CHOOSE i \in 0 .. cLen - 1 : ASCIIChars[i + 1] = char

----------------------------------------------------------------------------
(* Inputs *)

ChannelSamples ==
    { (k * MaxChannel) \div MaxLevel : k \in 0 .. MaxLevel }
        \cup { 1, 2259, 2260, 65534 }

AlphaSamples == { 0, 1, MaxChannel }

Pixels == [r : ChannelSamples, g : ChannelSamples, b : ChannelSamples, a : AlphaSamples]

ByteSamples ==
    { (k * 255) \div MaxByteLevel : k \in 0 .. MaxByteLevel } \cup { 1, 15, 16, 254 }

Colours == [R : ByteSamples, G : ByteSamples, B : ByteSamples]

NoPixelChar == [char |-> 0, x |-> 0, y |-> 0]
NoColourPixelChar == [char |-> 0, x |-> 0, y |-> 0, c |-> Nil]
ZeroPixel == [r |-> 0, g |-> 0, b |-> 0, a |-> 0]
ZeroColour == [R |-> 0, G |-> 0, B |-> 0]

IdlePix ==
    /\ px = ZeroPixel
    /\ reverse = FALSE
    /\ plainPC = NoPixelChar
    /\ colourPC = NoColourPixelChar
    /\ oneFilePC = NoPixelChar
    /\ fromColor = Nil
    /\ pxDone = {}

IdleConv ==
    /\ fn = "none"
    /\ img = << >>
    /\ max = [X |-> 0, Y |-> 0]
    /\ negative = FALSE
    /\ invert = FALSE
    /\ single = FALSE
    /\ mainPc = "idle"
    /\ y = 0
    /\ wg = 0
    /\ ch = << >>
    /\ chClosed = FALSE
    /\ doneClosed = FALSE
    /\ matrix = << >>
    /\ worker = << >>
    /\ collector = "idle"
    /\ result = << >>
    /\ panicked = "none"
    /\ writes = << >>

IdleScale ==
    /\ entry = "none"
    /\ opts = [Width |-> 0, Height |-> 0, Factor |-> [n |-> 0, d |-> 1]]
    /\ src = [X |-> 0, Y |-> 0]
    /\ imgOpts = [Width |-> 0, Height |-> 0, Factor |-> [n |-> 0, d |-> 1]]
    /\ dst = [X |-> 0, Y |-> 0]
    /\ scPc = "idle"

IdleValidate ==
    /\ cli = "none"
    /\ args = [Width |-> 0, Height |-> 0, Factor |-> [n |-> 0, d |-> 1]]
    /\ files = [inFound |-> FALSE, inSupported |-> FALSE, outFree |-> FALSE,
                saveSupported |-> FALSE]
    /\ conf = [Width |-> 0, Height |-> 0, Factor |-> [n |-> 0, d |-> 1]]
    /\ valErr = "nil"
    /\ opened = FALSE
    /\ cliPc = "idle"

IdleCam ==
    /\ camMain = "idle"
    /\ sigHandler = "idle"
    /\ sCh = << >>
    /\ sChClosed = FALSE
    /\ notified = FALSE
    /\ ctxCancelled = FALSE
    /\ doneCloses = 0
    /\ output = 0
    /\ outputClosed = FALSE
    /\ frames = 0
    /\ signals = 0
    /\ process = "idle"

IdleFile ==
    /\ fileIn = [opens |-> FALSE, supported |-> FALSE, decodes |-> FALSE,
                 opts |-> [Width |-> 0, Height |-> 0, Factor |-> [n |-> 0, d |-> 1],
                           Mode |-> 0]]
    /\ fileOut = [fn |-> "none", img |-> "nil", err |-> "nil", panic |-> "none"]
    /\ filePc = "idle"

IdleHex ==
    /\ col = ZeroColour
    /\ hexStr = << >>
    /\ fromHex = [c |-> Nil, err |-> "nil"]
    /\ hexPc = "idle"

----------------------------------------------------------------------------
(* One pixel through the two row converters and FromColor *)

InitPixel ==
    /\ px \in Pixels
    /\ reverse \in BOOLEAN
    /\ plainPC = NoPixelChar
    /\ colourPC = NoColourPixelChar
    /\ oneFilePC = NoPixelChar
    /\ fromColor = Nil
    /\ pxDone = {}
    /\ IdleHex
    /\ IdleConv
    /\ IdleScale
    /\ IdleValidate
    /\ IdleFile
    /\ IdleCam

\* convertRow's loop body for the pixel
ConvertRowPixel ==
    /\ "convertRow" \notin pxDone
    /\ plainPC' = PixelChar(px, 0, 0, reverse)
    /\ pxDone' = pxDone \cup {"convertRow"}
    /\ UNCHANGED <<px, reverse, colourPC, oneFilePC, fromColor, hexVars, convVars, scaleVars, valVars,
                   fileVars, camVars>>

\* convertRowColour's loop body for the pixel
ConvertRowColourPixel ==
    /\ "convertRowColour" \notin pxDone
    /\ colourPC' = ColourPixelChar(px, 0, 0, reverse)
    /\ pxDone' = pxDone \cup {"convertRowColour"}
    /\ UNCHANGED <<px, reverse, plainPC, oneFilePC, fromColor, hexVars, convVars, scaleVars, valVars,
                   fileVars, camVars>>

\* colour.FromColor(c)
CallFromColor ==
    /\ "FromColor" \notin pxDone
    /\ fromColor' = FromColor(px)
    /\ pxDone' = pxDone \cup {"FromColor"}
    /\ UNCHANGED <<px, reverse, plainPC, colourPC, oneFilePC, hexVars, convVars, scaleVars, valVars,
                   fileVars, camVars>>

\* main.go's convertRow's loop body for the pixel
ConvertRowOneFilePixel ==
    /\ "main.go convertRow" \notin pxDone
    /\ oneFilePC' = OneFilePixelChar(px, 0, 0, reverse)
    /\ pxDone' = pxDone \cup {"main.go convertRow"}
    /\ UNCHANGED <<px, reverse, plainPC, colourPC, fromColor, hexVars, convVars, scaleVars,
                   valVars, fileVars, camVars>>

NextPixel ==
    ConvertRowPixel \/ ConvertRowColourPixel \/ ConvertRowOneFilePixel \/ CallFromColor

SpecPixel == InitPixel /\ [][NextPixel]_vars

----------------------------------------------------------------------------
(* Colour256.Hex followed by FromHex *)

InitHex ==
    /\ col \in Colours
    /\ hexStr = << >>
    /\ fromHex = [c |-> Nil, err |-> "nil"]
    /\ hexPc = "start"
    /\ IdlePix
    /\ IdleConv
    /\ IdleScale
    /\ IdleValidate
    /\ IdleFile
    /\ IdleCam

CallHex ==
    /\ hexPc = "start"
    /\ hexStr' = Hex(col)
    /\ hexPc' = "formatted"
    /\ UNCHANGED <<col, fromHex, pixVars, convVars, scaleVars, valVars, fileVars, camVars>>

CallFromHex ==
    /\ hexPc = "formatted"
    /\ fromHex' = FromHex(hexStr)
    /\ hexPc' = "parsed"
    /\ UNCHANGED <<col, hexStr, pixVars, convVars, scaleVars, valVars, fileVars, camVars>>

NextHex == CallHex \/ CallFromHex

SpecHex == InitHex /\ [][NextHex]_vars

----------------------------------------------------------------------------
(* scale: the size of the scaled image *)

\* a float64 as the rational n / d, d > 0
Rat(n, d) == [n |-> n, d |-> d]
RatLess(a, b) == a.n * b.d < b.n * a.d
RatEq(a, b) == a.n * b.d = b.n * a.d
One == Rat(1, 1)

Abs(k) == IF k < 0 THEN -k ELSE k

\* int(math.Round(float64(k) * f)): to the nearest integer, halves away
\* from zero
RoundMul(k, f) ==
    LET num == k * f.n
        mag == (2 * Abs(num) + f.d) \div (2 * f.d)
    IN  IF num < 0 THEN -mag ELSE mag

\* getScaledXY: Width and Height when Factor == 0, else the source size
\* times Factor, rounded
getScaledXY(o, s) ==
    IF o.Factor.n = 0 THEN [X |-> o.Width, Y |-> o.Height]
    ELSE [X |-> RoundMul(s.X, o.Factor), Y |-> RoundMul(s.Y, o.Factor)]

FitToWindowNoWidth(o, s) ==
    IF o.Width # 0 /\ o.Height # 0 /\ o.Factor.n # 0
    THEN LET hfit == s.Y > o.Height /\ RatLess(Rat(o.Height, s.Y), o.Factor)
             f1 == IF hfit THEN Rat(o.Height, s.Y) ELSE o.Factor
             f3 == IF RatLess(One, f1) THEN One ELSE f1
         IN  [Width |-> IF hfit THEN 0 ELSE o.Width,
              Height |-> IF hfit THEN 0 ELSE o.Height,
              Factor |-> f3]
    ELSE o

FitToWindowNoClamp(o, s) ==
    IF o.Width # 0 /\ o.Height # 0 /\ o.Factor.n # 0
    THEN LET hfit == s.Y > o.Height /\ RatLess(Rat(o.Height, s.Y), o.Factor)
             f1 == IF hfit THEN Rat(o.Height, s.Y) ELSE o.Factor
             wfit == s.X > o.Width /\ RatLess(Rat(o.Width, s.X), f1)
             f2 == IF wfit THEN Rat(o.Width, s.X) ELSE f1
             useFact == hfit \/ wfit
         IN  [Width |-> IF useFact THEN 0 ELSE o.Width,
              Height |-> IF useFact THEN 0 ELSE o.Height,
              Factor |-> f2]
    ELSE o

\* FileToWindow's "determine factor": the options it hands to Image
FitToWindow(o, s) ==
    IF o.Width # 0 /\ o.Height # 0 /\ o.Factor.n # 0
    THEN LET hfit == s.Y > o.Height /\ RatLess(Rat(o.Height, s.Y), o.Factor)
             f1 == IF hfit THEN Rat(o.Height, s.Y) ELSE o.Factor
             wfit == s.X > o.Width /\ RatLess(Rat(o.Width, s.X), f1)
             f2 == IF wfit THEN Rat(o.Width, s.X) ELSE f1
             f3 == IF RatLess(One, f2) THEN One ELSE f2
             useFact == hfit \/ wfit
         IN  [Width |-> IF useFact THEN 0 ELSE o.Width,
              Height |-> IF useFact THEN 0 ELSE o.Height,
              Factor |-> f3]
    ELSE o

\* the README's example: a 2816x1880 source previewed with -w 400 -h 110
ExampleSrc == [X |-> 2816, Y |-> 1880]
ExampleWidth == 400
ExampleHeight == 110

\* the factors asked for: 0 (unused) and the positive halves
Factors == { Rat(k, 2) : k \in 0 .. MaxFactorHalves }

InitScale ==
    /\ entry = "none"
    /\ src \in [X : 0 .. MaxSrc, Y : 0 .. MaxSrc] \cup {ExampleSrc}
    /\ opts \in [Width : (0 .. MaxDim) \cup {ExampleWidth},
                 Height : (0 .. MaxDim) \cup {ExampleHeight},
                 Factor : Factors]
    /\ imgOpts = opts
    /\ dst = [X |-> 0, Y |-> 0]
    /\ scPc = "start"
    /\ IdlePix
    /\ IdleHex
    /\ IdleConv
    /\ IdleValidate
    /\ IdleFile
    /\ IdleCam

\* scale.Image(src, opts), as File and Raw call it on the decoded image
CallImage ==
    /\ scPc = "start"
    /\ entry' = "Image"
    /\ imgOpts' = opts
    /\ dst' = getScaledXY(opts, src)
    /\ scPc' = "scaled"
    /\ UNCHANGED <<opts, src, pixVars, hexVars, convVars, valVars, fileVars, camVars>>

\* scale.FileToWindow on a decoded image: the factor is determined, then
\* Image(src, opts)
CallFileToWindow ==
    /\ scPc = "start"
    /\ entry' = "FileToWindow"
    /\ imgOpts' = FitToWindow(opts, src)
    /\ dst' = getScaledXY(FitToWindow(opts, src), src)
    /\ scPc' = "scaled"
    /\ UNCHANGED <<opts, src, pixVars, hexVars, convVars, valVars, fileVars, camVars>>

NextScale == CallImage \/ CallFileToWindow

SpecScale == InitScale /\ [][NextScale]_vars

----------------------------------------------------------------------------
(* convert: one conversion of an image, H row workers and one collector *)

\* strings.Join(elems, sep)
RECURSIVE Join(_, _)
Join(elems, sep) ==
    IF Len(elems) = 0 THEN << >>
    ELSE IF Len(elems) = 1 THEN elems[1]
    ELSE elems[1] \o sep \o Join(Tail(elems), sep)

emptyCharResetAfterFirst(s) == s \o << 32 >> \o ResetColour \o << 32, 32 >>

\* emptyChar "%s   " and emptySingleChar "%s "
emptyChar(s) == s \o << 32, 32, 32 >>
emptySingleChar(s) == s \o << 32 >>

Newline == << 10 >>

\* the pixels the images are made of: transparent with colour left in the
\* channels, opaque black, opaque white, an opaque mid tone
Palette ==
    << [r |-> MaxChannel, g |-> 0, b |-> 0, a |-> 0],
       [r |-> 0, g |-> 0, b |-> 0, a |-> MaxChannel],
       [r |-> MaxChannel, g |-> MaxChannel, b |-> MaxChannel, a |-> MaxChannel],
       [r |-> 32768, g |-> 16384, b |-> 0, a |-> MaxChannel] >>

\* the image of w columns and h rows whose pixel (x, y) is palette entry
\* base + step * (x + w * y): one colour all over for step 0, and
\* neighbouring pixels that differ for step 1
PaletteImage(w, h, base, step) ==
    [yy \in 1 .. h |->
        [xx \in 1 .. w |->
            Palette[((base + step * ((xx - 1) + w * (yy - 1))) % Len(Palette)) + 1]]]

\* the images converted: the palette images of every size, and every sampled
\* pixel as an image of one pixel
Images(m) ==
    { PaletteImage(m.X, m.Y, base, step) : base \in 0 .. Len(Palette) - 1, step \in 0 .. 1 }
        \cup (IF m.X = 1 /\ m.Y = 1 THEN { << << p >> >> : p \in Pixels } ELSE {})

\* img.At(x, y)
At(x, yy) == img[yy + 1][x + 1]

CapRowsOnly == max.Y

\* cap(ch): make(chan ..., max.Y+max.X)
Cap == max.Y + max.X

Coloured == "ImgToASCIIColoured"
Plain == "ImgToASCII"
Preview == "ImgToPreview"
\* main.go's own converter
OneFileImgToASCII == "imgToASCII"

\* the zero value of a cell: the zero rune, or the empty string
ZeroCell == IF fn \in {Plain, OneFileImgToASCII} THEN 0 ELSE << >>

\* the number of cells of the grid written so far
Written ==
    Cardinality({ c \in (1 .. Len(matrix)) \X (1 .. max.X) :
                    c[2] <= Len(matrix[c[1]]) /\ matrix[c[1]][c[2]] # ZeroCell })

CollectRowArrival(pc) == IF max.X = 0 THEN 0 ELSE Written \div max.X

\* the row of matrix[pc.y][i]
CollectRow(pc) == pc.y

CollectColumnFirst(pc, inv) == 0

CollectColumnNoMirror(pc, inv) == pc.x

\* ImgToASCII's collector: i := pc.x; if invert { i = len(matrix[pc.y]) - i - 1 }
CollectColumn(pc, inv) ==
    IF inv THEN Len(matrix[pc.y + 1]) - pc.x - 1 ELSE pc.x

\* ImgToASCIIColoured's collector (the same text)
CollectColumnColoured(pc, inv) ==
    IF inv THEN Len(matrix[pc.y + 1]) - pc.x - 1 ELSE pc.x

\* the value the collector stores for a message
CellValue(pc) ==
    IF fn \in {Plain, OneFileImgToASCII} THEN pc.char
    ELSE IF fn = Coloured
         THEN (IF pc.c # Nil THEN TrueEsc(pc.c[1]) ELSE << >>) \o << pc.char >>
    ELSE LET cEsc == IF pc.c # Nil THEN TrueEsc(pc.c[1]) ELSE << >> IN
         IF single THEN emptySingleChar(cEsc) ELSE emptyChar(cEsc)

\* the column the collector stores a message in
CellColumn(pc) ==
    IF fn = Plain THEN CollectColumn(pc, invert)
    ELSE IF fn = Coloured THEN CollectColumnColoured(pc, invert)
    ELSE pc.x

\* the message a row worker sends for pixel (x, y)
Message(x, yy) ==
    IF fn = Plain THEN PixelChar(At(x, yy), x, yy, negative)
    ELSE IF fn = OneFileImgToASCII THEN OneFilePixelChar(At(x, yy), x, yy, negative)
    ELSE IF fn = Coloured THEN ColourPixelChar(At(x, yy), x, yy, negative)
    ELSE PreviewPixelChar(At(x, yy), x, yy)

\* strings.TrimRight(s, " ")
RECURSIVE TrimRight(_)
TrimRight(s) ==
    IF Len(s) > 0 /\ s[Len(s)] = 32 THEN TrimRight(SubSeq(s, 1, Len(s) - 1)) ELSE s

AssembleTrimmed(m) ==
    IF fn = Plain THEN Join([r \in 1 .. Len(m) |-> TrimRight(m[r])], Newline)
    ELSE IF fn = Coloured
         THEN Join([r \in 1 .. Len(m) |-> Join(m[r], << >>)], Newline) \o ResetColour
    ELSE Join([r \in 1 .. Len(m) |-> Join(m[r], ResetColour)], ResetColour \o Newline)

\* the string built from the populated matrix
Assemble(m) ==
    IF fn = Plain THEN Join(m, Newline)
    ELSE IF fn = OneFileImgToASCII
         THEN Join([r \in 1 .. Len(m) |-> TrimRight(m[r])], Newline)
    ELSE IF fn = Coloured
         THEN Join([r \in 1 .. Len(m) |-> Join(m[r], << >>)], Newline) \o ResetColour
    ELSE Join([r \in 1 .. Len(m) |-> Join(m[r], ResetColour)], ResetColour \o Newline)

InitConv ==
    /\ fn \in {Plain, Coloured, Preview}
    /\ max \in { m \in [X : 0 .. MaxW, Y : 0 .. MaxH] : m.X * m.Y <= MaxCells }
    /\ img \in Images(max)
    /\ negative \in (IF fn = Preview THEN {FALSE} ELSE BOOLEAN)
    /\ invert \in (IF fn = Preview THEN {FALSE} ELSE BOOLEAN)
    /\ single \in (IF fn = Preview THEN BOOLEAN ELSE {FALSE})
    /\ mainPc = "start"
    /\ y = 0
    /\ wg = 0
    /\ ch = << >>
    /\ chClosed = FALSE
    /\ doneClosed = FALSE
    /\ matrix = << >>
    /\ worker = << >>
    /\ collector = "idle"
    /\ result = << >>
    /\ panicked = "none"
    /\ writes = << >>
    /\ IdlePix
    /\ IdleHex
    /\ IdleScale
    /\ IdleValidate
    /\ IdleFile
    /\ IdleCam

Running == panicked = "none"

\* wg.Add(max.Y), the channels, the matrix of max.Y nil rows, go collector
MainSetup ==
    /\ Running
    /\ mainPc = "start"
    /\ wg' = max.Y
    /\ matrix' = [r \in 1 .. max.Y |-> << >>]
    /\ worker' = [r \in 1 .. max.Y |-> -1]
    /\ collector' = "range"
    /\ writes' = [r \in 1 .. max.Y |-> << >>]
    /\ mainPc' = "loop"
    /\ UNCHANGED <<fn, img, max, negative, invert, single, y, ch, chClosed,
                   doneClosed, result, panicked, pixVars, hexVars, scaleVars,
                   valVars, fileVars, camVars>>

MainAllocNoRow ==
    /\ Running
    /\ mainPc = "loop"
    /\ y < max.Y
    /\ mainPc' = "go"
    /\ UNCHANGED <<fn, img, max, negative, invert, single, y, wg, ch, chClosed, matrix, writes,
                   doneClosed, worker, collector, result, panicked, pixVars, hexVars, scaleVars,
                   valVars, fileVars, camVars>>

\* matrix[y] = make([]T, max.X)
MainAlloc ==
    /\ Running
    /\ mainPc = "loop"
    /\ y < max.Y
    /\ matrix' = [matrix EXCEPT ![y + 1] = [c \in 1 .. max.X |-> ZeroCell]]
    /\ writes' = [writes EXCEPT ![y + 1] = [c \in 1 .. max.X |-> << >>]]
    /\ mainPc' = "go"
    /\ UNCHANGED <<fn, img, max, negative, invert, single, y, wg, ch, chClosed,
                   doneClosed, worker, collector, result, panicked, pixVars, hexVars, scaleVars,
                   valVars, fileVars, camVars>>

\* go convertRow(&wg, ch, img, y, negative); y++
MainGo ==
    /\ Running
    /\ mainPc = "go"
    /\ worker' = [worker EXCEPT ![y + 1] = 0]
    /\ y' = y + 1
    /\ mainPc' = "loop"
    /\ UNCHANGED <<fn, img, max, negative, invert, single, writes, wg, ch, chClosed,
                   doneClosed, matrix, collector, result, panicked, pixVars, hexVars, scaleVars,
                   valVars, fileVars, camVars>>

MainWaitNoBarrier ==
    /\ Running
    /\ mainPc = "loop"
    /\ y >= max.Y
    /\ mainPc' = "close"
    /\ UNCHANGED <<fn, img, max, negative, invert, single, writes, y, wg, ch, chClosed,
                   doneClosed, matrix, worker, collector, result, panicked,
                   pixVars, hexVars, scaleVars, valVars, fileVars, camVars>>

\* the loop ends and wg.Wait() returns
MainWait ==
    /\ Running
    /\ mainPc = "loop"
    /\ y >= max.Y
    /\ wg = 0
    /\ mainPc' = "close"
    /\ UNCHANGED <<fn, img, max, negative, invert, single, writes, y, wg, ch, chClosed,
                   doneClosed, matrix, worker, collector, result, panicked,
                   pixVars, hexVars, scaleVars, valVars, fileVars, camVars>>

\* close(ch)
MainClose ==
    /\ Running
    /\ mainPc = "close"
    /\ chClosed' = TRUE
    /\ mainPc' = "recv"
    /\ UNCHANGED <<fn, img, max, negative, invert, single, writes, y, wg, ch,
                   doneClosed, matrix, worker, collector, result, panicked,
                   pixVars, hexVars, scaleVars, valVars, fileVars, camVars>>

\* <-done, then the chunks are joined and returned
MainReturn ==
    /\ Running
    /\ mainPc = "recv"
    /\ doneClosed
    /\ result' = Assemble(matrix)
    /\ mainPc' = "done"
    /\ UNCHANGED <<fn, img, max, negative, invert, single, writes, y, wg, ch, chClosed,
                   doneClosed, matrix, worker, collector, panicked, pixVars, hexVars, scaleVars,
                   valVars, fileVars, camVars>>

\* row worker r: ch <- the message of its next pixel (blocks while ch is full)
WorkerSend(r) ==
    /\ Running
    /\ worker[r + 1] >= 0
    /\ worker[r + 1] < max.X
    /\ chClosed \/ Len(ch) < Cap
    /\ IF chClosed
       THEN /\ panicked' = "send on closed channel"
            /\ UNCHANGED <<ch, worker>>
       ELSE /\ ch' = Append(ch, Message(worker[r + 1], r))
            /\ worker' = [worker EXCEPT ![r + 1] = @ + 1]
            /\ UNCHANGED panicked
    /\ UNCHANGED <<fn, img, max, negative, invert, single, writes, mainPc, y, wg, chClosed,
                   doneClosed, matrix, collector, result, pixVars, hexVars, scaleVars,
                   valVars, fileVars, camVars>>

WorkerDoneNoSignal(r) ==
    /\ Running
    /\ worker[r + 1] = max.X
    /\ worker' = [worker EXCEPT ![r + 1] = max.X + 1]
    /\ wg' = wg
    /\ UNCHANGED <<fn, img, max, negative, invert, single, writes, mainPc, y, ch, chClosed,
                   doneClosed, matrix, collector, result, panicked, pixVars, hexVars, scaleVars,
                   valVars, fileVars, camVars>>

\* row worker r: its loop is over, wg.Done()
WorkerDone(r) ==
    /\ Running
    /\ worker[r + 1] = max.X
    /\ worker' = [worker EXCEPT ![r + 1] = max.X + 1]
    /\ wg' = wg - 1
    /\ UNCHANGED <<fn, img, max, negative, invert, single, writes, mainPc, y, ch, chClosed,
                   doneClosed, matrix, collector, result, panicked, pixVars, hexVars, scaleVars,
                   valVars, fileVars, camVars>>

\* the collector: for pc := range ch { matrix[pc.y][i] = ... }
CollectorRecv ==
    /\ Running
    /\ collector = "range"
    /\ Len(ch) > 0
    /\ LET pc == Head(ch)
           row == CollectRow(pc) + 1
       IN  /\ ch' = Tail(ch)
           /\ IF row \notin 1 .. Len(matrix)
              THEN /\ panicked' = "index out of range"
                   /\ UNCHANGED <<matrix, writes>>
              ELSE LET i == CellColumn(pc) + 1 IN
                   IF i \notin 1 .. Len(matrix[row])
                   THEN /\ panicked' = "index out of range"
                        /\ UNCHANGED <<matrix, writes>>
                   ELSE /\ matrix' = [matrix EXCEPT ![row][i] = CellValue(pc)]
                        /\ writes' = [writes EXCEPT ![row][i] = Append(@, [x |-> pc.x, y |-> pc.y])]
                        /\ UNCHANGED panicked
    /\ UNCHANGED <<fn, img, max, negative, invert, single, mainPc, y, wg, chClosed,
                   doneClosed, worker, collector, result, pixVars, hexVars, scaleVars,
                   valVars, fileVars, camVars>>

CollectorExitAfterFirst ==
    /\ Running
    /\ collector = "range"
    /\ Len(ch) = 0
    /\ chClosed
    /\ Written > 0
    /\ doneClosed' = TRUE
    /\ collector' = "exited"
    /\ UNCHANGED <<fn, img, max, negative, invert, single, writes, mainPc, y, wg, ch, chClosed,
                   matrix, worker, result, panicked, pixVars, hexVars, scaleVars,
                   valVars, fileVars, camVars>>

\* the collector: ch is closed and drained, close(done)
CollectorExit ==
    /\ Running
    /\ collector = "range"
    /\ Len(ch) = 0
    /\ chClosed
    /\ doneClosed' = TRUE
    /\ collector' = "exited"
    /\ UNCHANGED <<fn, img, max, negative, invert, single, writes, mainPc, y, wg, ch, chClosed,
                   matrix, worker, result, panicked, pixVars, hexVars, scaleVars,
                   valVars, fileVars, camVars>>

Next ==
    \/ MainSetup
    \/ MainAlloc
    \/ MainGo
    \/ MainWait
    \/ MainClose
    \/ MainReturn
    \/ \E r \in 0 .. MaxH : r < max.Y /\ r < Len(worker) /\ WorkerSend(r)
    \/ \E r \in 0 .. MaxH : r < max.Y /\ r < Len(worker) /\ WorkerDone(r)
    \/ CollectorRecv
    \/ CollectorExit

Init == InitConv

Spec == Init /\ [][Next]_vars

\* main.go's imgToASCII(c, scaled): the same goroutines, with c.reverse for
\* negative and no mirroring
InitOneFile ==
    /\ fn = OneFileImgToASCII
    /\ max \in { m \in [X : 0 .. MaxW, Y : 0 .. MaxH] : m.X * m.Y <= MaxCells }
    /\ img \in Images(max)
    /\ negative \in BOOLEAN
    /\ invert = FALSE
    /\ single = FALSE
    /\ mainPc = "start"
    /\ y = 0
    /\ wg = 0
    /\ ch = << >>
    /\ chClosed = FALSE
    /\ doneClosed = FALSE
    /\ matrix = << >>
    /\ worker = << >>
    /\ collector = "idle"
    /\ result = << >>
    /\ panicked = "none"
    /\ writes = << >>
    /\ IdlePix
    /\ IdleHex
    /\ IdleScale
    /\ IdleValidate
    /\ IdleFile
    /\ IdleCam

SpecOneFile == InitOneFile /\ [][Next]_vars

\* the steps of the calling goroutine, of row worker r and of the collector
MainStep == MainSetup \/ MainAlloc \/ MainGo \/ MainWait \/ MainClose \/ MainReturn
WorkerStep(r) == r < max.Y /\ r < Len(worker) /\ (WorkerSend(r) \/ WorkerDone(r))
CollectorStep == CollectorRecv \/ CollectorExit

\* the conversion under a scheduler that lets every goroutine that can run,
\* run
Fairness ==
    /\ WF_vars(MainStep)
    /\ \A r \in 0 .. MaxH : WF_vars(WorkerStep(r))
    /\ WF_vars(CollectorStep)

SpecFair == Init /\ [][Next]_vars /\ Fairness

----------------------------------------------------------------------------
(* asciify's main: the flags are validated, then the image is scaled *)

ErrInvalidDimensions == "need valid width/height or factor"
ErrInvalidInputFormat == "unsupported input type"
ErrMissingInputFile == "input file not specified or missing"
ErrOutputFileExists == "output file already exists"

\* the two commands with a Config.Validate: cmd/asciify and the one-file
\* main.go
Asciify == "asciify"
OneFile == "main.go"

\* the factors -s can be given: 0, and the halves of either sign
FlagFactors == { Rat(k, 2) : k \in (0 - MaxFactorHalves) .. MaxFactorHalves }

\* Config.Validate on sizing c and files f: the Config it leaves and the
\* error it returns
Validate(c, f, which) ==
    IF c.Width = 0 /\ c.Height = 0 /\ c.Factor.n <= 0
    THEN [conf |-> c, err |-> ErrInvalidDimensions]
    ELSE IF c.Factor.n = 0 /\ (c.Width = 0 \/ c.Height = 0)
    THEN [conf |-> c, err |-> ErrInvalidDimensions]
    ELSE LET used == IF c.Width # 0 /\ c.Height # 0
                     THEN [c EXCEPT !.Factor = Rat(0, 1)]
                     ELSE [c EXCEPT !.Width = 0, !.Height = 0]
         IN  [conf |-> used,
              err |-> IF ~f.inFound THEN ErrMissingInputFile
                      ELSE IF ~f.inSupported THEN ErrInvalidInputFormat
                      ELSE IF ~f.outFree THEN ErrOutputFileExists
                      ELSE IF which = OneFile /\ ~f.saveSupported
                           THEN ErrInvalidInputFormat
                      ELSE "nil"]

InitValidate ==
    /\ cli \in {Asciify, OneFile}
    /\ args \in [Width : 0 .. MaxDim, Height : 0 .. MaxDim, Factor : FlagFactors]
    /\ files \in [inFound : BOOLEAN, inSupported : BOOLEAN, outFree : BOOLEAN,
                   saveSupported : BOOLEAN]
    /\ conf = args
    /\ valErr = "nil"
    /\ opened = FALSE
    /\ cliPc = "start"
    /\ IdlePix
    /\ IdleHex
    /\ IdleConv
    /\ IdleScale
    /\ IdleFile
    /\ IdleCam

\* err := conf.Validate()
CliValidate ==
    /\ cliPc = "start"
    /\ conf' = Validate(conf, files, cli).conf
    /\ valErr' = Validate(conf, files, cli).err
    /\ cliPc' = "validated"
    /\ UNCHANGED <<cli, args, files, opened, pixVars, hexVars, convVars, scaleVars, fileVars, camVars>>

\* if err != nil { fmt.Println(err); os.Exit(1) }
CliExit ==
    /\ cliPc = "validated"
    /\ valErr # "nil"
    /\ cliPc' = "exited"
    /\ UNCHANGED <<cli, args, files, conf, valErr, opened, pixVars, hexVars, convVars,
                   scaleVars, fileVars, camVars>>

\* scale.File(conf.in, conf.ScaleOpts): the input file is opened
CliScale ==
    /\ cliPc = "validated"
    /\ valErr = "nil"
    /\ opened' = TRUE
    /\ cliPc' = "scaling"
    /\ UNCHANGED <<cli, args, files, conf, valErr, pixVars, hexVars, convVars, scaleVars, fileVars, camVars>>

NextValidate == CliValidate \/ CliExit \/ CliScale

SpecValidate == InitValidate /\ [][NextValidate]_vars

----------------------------------------------------------------------------
(* scale: the entry points that decode, then scale *)

\* the scaling modes Image has a case for, and the values a Mode is given
KnownModes == 0 .. 3
Modes == 0 .. 4

\* what an entry point ends with: an image and an error returned, or a panic
Returns(f, i, e) == [fn |-> f, img |-> i, err |-> e, panic |-> "none"]
Panics(f) == [fn |-> f, img |-> "nil", err |-> "nil", panic |-> "nil pointer dereference"]

\* Image(src, opts) where src is nil unless decoded: getScaledXY reads
\* src.Bounds() when Factor != 0, and every case of the switch reads it
ImageOutcome(f, decoded, o) ==
    IF decoded THEN Returns(f, "scaled", "nil")
    ELSE IF o.Factor.n # 0 THEN Panics(f)
    ELSE IF o.Mode \in KnownModes THEN Panics(f)
    ELSE Returns(f, "scaled", "nil")

\* Raw(frame, opts)
Raw(in) ==
    IF ~in.decodes THEN Returns("Raw", "nil", "decode")
    ELSE ImageOutcome("Raw", TRUE, in.opts)

\* File(imgFile, opts)
File(in) ==
    IF ~in.opens THEN Returns("File", "nil", "open")
    ELSE IF ~in.supported THEN Returns("File", "nil", "file extension not supported")
    ELSE IF ~in.decodes THEN Returns("File", "nil", "decode")
    ELSE ImageOutcome("File", TRUE, in.opts)

\* FileToWindow(imgFile, opts): err is not looked at after the decode;
\* "determine factor" reads src.Bounds(), then Image(src, opts)
FileToWindow(in) ==
    IF ~in.opens THEN Returns("FileToWindow", "nil", "open")
    ELSE IF ~in.supported
    THEN Returns("FileToWindow", "nil", "file extension not supported")
    ELSE IF in.opts.Width # 0 /\ in.opts.Height # 0 /\ in.opts.Factor.n # 0
    THEN (IF in.decodes THEN ImageOutcome("FileToWindow", TRUE, in.opts)
          ELSE Panics("FileToWindow"))
    ELSE ImageOutcome("FileToWindow", in.decodes, in.opts)

InitFile ==
    /\ fileIn \in [opens : BOOLEAN, supported : BOOLEAN, decodes : BOOLEAN,
                    opts : [Width : 0 .. MaxDim, Height : 0 .. MaxDim, Factor : Factors,
                            Mode : Modes]]
    /\ fileOut = [fn |-> "none", img |-> "nil", err |-> "nil", panic |-> "none"]
    /\ filePc = "start"
    /\ IdlePix
    /\ IdleHex
    /\ IdleConv
    /\ IdleScale
    /\ IdleValidate
    /\ IdleCam

RawCall ==
    /\ filePc = "start"
    /\ fileOut' = Raw(fileIn)
    /\ filePc' = "ended"
    /\ UNCHANGED <<fileIn, pixVars, hexVars, convVars, scaleVars, valVars, camVars>>

FileCall ==
    /\ filePc = "start"
    /\ fileOut' = File(fileIn)
    /\ filePc' = "ended"
    /\ UNCHANGED <<fileIn, pixVars, hexVars, convVars, scaleVars, valVars, camVars>>

FileToWindowCall ==
    /\ filePc = "start"
    /\ fileOut' = FileToWindow(fileIn)
    /\ filePc' = "ended"
    /\ UNCHANGED <<fileIn, pixVars, hexVars, convVars, scaleVars, valVars, camVars>>

NextFile == RawCall \/ FileCall \/ FileToWindowCall

SpecFile == InitFile /\ [][NextFile]_vars

----------------------------------------------------------------------------
(* asciicam: main, its signal goroutine, the signals and the camera *)

SIGINT == "SIGINT"
SIGQUIT == "SIGQUIT"
SIGKILL == "SIGKILL"
Signals == {SIGINT, SIGQUIT, SIGKILL}

\* the capacity of sCh: make(chan os.Signal, 1)
SChCap == 1

\* the options asciicam passes to scale.Raw when no flag is given
CamOpts == [Width |-> 0, Height |-> 0, Factor |-> Rat(2, 2), Mode |-> 0]

Alive == process = "running"

InitCam ==
    /\ camMain = "start"
    /\ sigHandler = "unstarted"
    /\ sCh = << >>
    /\ sChClosed = FALSE
    /\ notified = FALSE
    /\ ctxCancelled = FALSE
    /\ doneCloses = 0
    /\ output = 0
    /\ outputClosed = FALSE
    /\ frames = 0
    /\ signals = 0
    /\ process = "running"
    /\ IdlePix
    /\ IdleHex
    /\ IdleConv
    /\ IdleScale
    /\ IdleValidate
    /\ IdleFile

\* ctx, cfunc := context.WithCancel(...); sCh, done; go func() { ... }()
CamGoHandler ==
    /\ Alive
    /\ camMain = "start"
    /\ sigHandler' = "recv"
    /\ camMain' = "notify"
    /\ UNCHANGED <<sCh, sChClosed, notified, ctxCancelled, doneCloses, output, outputClosed,
                   frames, signals, process, pixVars, hexVars, convVars, scaleVars, valVars,
                   fileVars>>

\* signal.Notify(sCh, SIGINT, SIGQUIT, SIGKILL), then the flags
CamNotify ==
    /\ Alive
    /\ camMain = "notify"
    /\ notified' = TRUE
    /\ camMain' = "open"
    /\ UNCHANGED <<sigHandler, sCh, sChClosed, ctxCancelled, doneCloses, output, outputClosed,
                   frames, signals, process, pixVars, hexVars, convVars, scaleVars, valVars,
                   fileVars>>

\* device.Open: on an error, fmt.Println(err); os.Exit(1)
CamOpen ==
    /\ Alive
    /\ camMain = "open"
    /\ \E ok \in BOOLEAN :
           IF ok THEN camMain' = "camstart" /\ UNCHANGED process
           ELSE process' = "exit 1" /\ UNCHANGED camMain
    /\ UNCHANGED <<sigHandler, sCh, sChClosed, notified, ctxCancelled, doneCloses, output,
                   outputClosed, frames, signals, pixVars, hexVars, convVars, scaleVars,
                   valVars, fileVars>>

\* camera.Start(ctx): on an error, log.Fatalf
CamStart ==
    /\ Alive
    /\ camMain = "camstart"
    /\ \E ok \in BOOLEAN :
           IF ok THEN camMain' = "range" /\ UNCHANGED process
           ELSE process' = "exit 1" /\ UNCHANGED camMain
    /\ UNCHANGED <<sigHandler, sCh, sChClosed, notified, ctxCancelled, doneCloses, output,
                   outputClosed, frames, signals, pixVars, hexVars, convVars, scaleVars,
                   valVars, fileVars>>

\* one turn of for frame := range camera.GetOutput(): scale.Raw, on an
\* error os.Exit(1), else convert.ImgToASCII, clear() and the print
CamFrame ==
    /\ Alive
    /\ camMain = "range"
    /\ output > 0
    /\ output' = output - 1
    /\ \E decodes \in BOOLEAN :
           LET out == Raw([opens |-> TRUE, supported |-> TRUE, decodes |-> decodes,
                           opts |-> CamOpts])
           IN  IF out.err # "nil" THEN process' = "exit 1" ELSE UNCHANGED process
    /\ UNCHANGED <<camMain, sigHandler, sCh, sChClosed, notified, ctxCancelled, doneCloses,
                   outputClosed, frames, signals, pixVars, hexVars, convVars, scaleVars,
                   valVars, fileVars>>

\* the range ends: the output channel is closed and drained
CamRangeEnd ==
    /\ Alive
    /\ camMain = "range"
    /\ output = 0
    /\ outputClosed
    /\ camMain' = "done"
    /\ UNCHANGED <<sigHandler, sCh, sChClosed, notified, ctxCancelled, doneCloses, output,
                   outputClosed, frames, signals, process, pixVars, hexVars, convVars,
                   scaleVars, valVars, fileVars>>

\* <-done, then main returns: the deferred camera.Close() and cfunc()
CamReturn ==
    /\ Alive
    /\ camMain = "done"
    /\ doneCloses > 0
    /\ ctxCancelled' = TRUE
    /\ camMain' = "returned"
    /\ process' = "returned"
    /\ UNCHANGED <<sigHandler, sCh, sChClosed, notified, doneCloses, output, outputClosed,
                   frames, signals, pixVars, hexVars, convVars, scaleVars, valVars, fileVars>>

\* the goroutine: <-sCh
SigRecv ==
    /\ Alive
    /\ sigHandler = "recv"
    /\ Len(sCh) > 0
    /\ sCh' = Tail(sCh)
    /\ sigHandler' = "cfunc"
    /\ UNCHANGED <<camMain, sChClosed, notified, ctxCancelled, doneCloses, output,
                   outputClosed, frames, signals, process, pixVars, hexVars, convVars,
                   scaleVars, valVars, fileVars>>

\* the goroutine: cfunc()
SigCancel ==
    /\ Alive
    /\ sigHandler = "cfunc"
    /\ ctxCancelled' = TRUE
    /\ sigHandler' = "close done"
    /\ UNCHANGED <<camMain, sCh, sChClosed, notified, doneCloses, output, outputClosed,
                   frames, signals, process, pixVars, hexVars, convVars, scaleVars, valVars,
                   fileVars>>

\* the goroutine: close(done)
SigCloseDone ==
    /\ Alive
    /\ sigHandler = "close done"
    /\ doneCloses' = doneCloses + 1
    /\ sigHandler' = "close sCh"
    /\ UNCHANGED <<camMain, sCh, sChClosed, notified, ctxCancelled, output, outputClosed,
                   frames, signals, process, pixVars, hexVars, convVars, scaleVars, valVars,
                   fileVars>>

\* the goroutine: close(sCh), and it ends; sCh stays registered with
\* signal.Notify
SigCloseSCh ==
    /\ Alive
    /\ sigHandler = "close sCh"
    /\ sChClosed' = TRUE
    /\ sigHandler' = "ended"
    /\ UNCHANGED <<camMain, sCh, notified, ctxCancelled, doneCloses, output, outputClosed,
                   frames, signals, process, pixVars, hexVars, convVars, scaleVars, valVars,
                   fileVars>>

\* a signal is sent to the process. SIGKILL is never handed to the program;
\* before signal.Notify the others end the process as well; after it, package
\* signal sends on sCh without blocking: the signal is buffered, or dropped
\* when sCh is full, and the send panics when sCh is closed
Signal(s) ==
    /\ Alive
    /\ signals < MaxSignals
    /\ signals' = signals + 1
    /\ IF s = SIGKILL \/ ~notified
       THEN process' = "killed" /\ UNCHANGED sCh
       ELSE IF sChClosed
       THEN process' = "panic: send on closed channel" /\ UNCHANGED sCh
       ELSE IF Len(sCh) < SChCap
       THEN sCh' = Append(sCh, s) /\ UNCHANGED process
       ELSE UNCHANGED <<sCh, process>>
    /\ UNCHANGED <<camMain, sigHandler, sChClosed, notified, ctxCancelled, doneCloses, output,
                   outputClosed, frames, pixVars, hexVars, convVars, scaleVars, valVars,
                   fileVars>>

Started == camMain \in {"range", "done"}

\* the camera puts a frame on its output channel
CameraFrame ==
    /\ Alive
    /\ Started
    /\ ~outputClosed
    /\ frames < MaxFrames
    /\ frames' = frames + 1
    /\ output' = output + 1
    /\ UNCHANGED <<camMain, sigHandler, sCh, sChClosed, notified, ctxCancelled, doneCloses,
                   outputClosed, signals, process, pixVars, hexVars, convVars, scaleVars,
                   valVars, fileVars>>

\* the camera sees ctx cancelled, stops and closes its output channel
CameraCancelled ==
    /\ Alive
    /\ Started
    /\ ~outputClosed
    /\ ctxCancelled
    /\ outputClosed' = TRUE
    /\ UNCHANGED <<camMain, sigHandler, sCh, sChClosed, notified, ctxCancelled, doneCloses,
                   output, frames, signals, process, pixVars, hexVars, convVars, scaleVars,
                   valVars, fileVars>>

\* the frame stream ends though ctx is not cancelled
CameraEnds ==
    /\ Alive
    /\ Started
    /\ ~outputClosed
    /\ ~ctxCancelled
    /\ outputClosed' = TRUE
    /\ UNCHANGED <<camMain, sigHandler, sCh, sChClosed, notified, ctxCancelled, doneCloses,
                   output, frames, signals, process, pixVars, hexVars, convVars, scaleVars,
                   valVars, fileVars>>

CamMainStep ==
    CamGoHandler \/ CamNotify \/ CamOpen \/ CamStart \/ CamFrame \/ CamRangeEnd \/ CamReturn
SigHandlerStep == SigRecv \/ SigCancel \/ SigCloseDone \/ SigCloseSCh

NextCam ==
    \/ CamGoHandler
    \/ CamNotify
    \/ CamOpen
    \/ CamStart
    \/ CamFrame
    \/ CamRangeEnd
    \/ CamReturn
    \/ SigRecv
    \/ SigCancel
    \/ SigCloseDone
    \/ SigCloseSCh
    \/ \E s \in Signals : Signal(s)
    \/ CameraFrame
    \/ CameraCancelled
    \/ CameraEnds

SpecCam == InitCam /\ [][NextCam]_vars

\* the scheduler runs main and the goroutine while they can step, and the
\* camera honours a cancelled ctx; nobody has to send a signal
CamFairness ==
    /\ WF_vars(CamMainStep)
    /\ WF_vars(SigHandlerStep)
    /\ WF_vars(CameraCancelled)

SpecCamFair == InitCam /\ [][NextCam]_vars /\ CamFairness

----------------------------------------------------------------------------
(* Properties of a conversion *)

Black == [r |-> 0, g |-> 0, b |-> 0, a |-> MaxChannel]
White == [r |-> MaxChannel, g |-> MaxChannel, b |-> MaxChannel, a |-> MaxChannel]

Cols == 0 .. max.X - 1
Rows == 0 .. max.Y - 1

\* the output column of source column x
OutCol(x) == IF invert THEN max.X - x - 1 ELSE x

\* the glyph of the cell at output column c of row r
GlyphOfCell(c, r) ==
    LET cell == matrix[r + 1][c + 1] IN
    IF fn = Plain THEN cell ELSE cell[Len(cell)]

\* the text a conversion of img is to return: row after row, each row's
\* cells in output column order
ExpectedText ==
    Assemble([r \in 1 .. max.Y |->
                [c \in 1 .. max.X |-> CellValue(Message(OutCol(c - 1), r - 1))]])

\* C1: every pixel with alpha 0 is emitted by ImgToASCII and ImgToASCIIColoured
\* as the last glyph of the ramp, the space, for every negative and invert
\* and whatever its R, G, B
C1_TransparentIsSpace ==
    (mainPc = "done" /\ fn \in {Plain, Coloured}) =>
        \A x \in Cols, r \in Rows :
            At(x, r).a = 0 =>
                /\ GlyphOfCell(OutCol(x), r) = ASCIIChars[cLen]
                /\ GlyphOfCell(OutCol(x), r) = 32

C1_Witness ==
    /\ mainPc = "done"
    /\ fn = Coloured
    /\ negative
    /\ invert
    /\ max.X >= 2
    /\ \E x \in Cols, r \in Rows :
          /\ At(x, r).a = 0
          /\ At(x, r).r > 0
          /\ OutCol(x) # x
          /\ GlyphOfCell(OutCol(x), r) = 32

\* C2: ImgToASCII of the image of one solid white pixel, negative = false,
\* returns the string of one space
C2_WhiteIsSpace ==
    (/\ mainPc = "done"
     /\ fn = Plain
     /\ ~negative
     /\ max = [X |-> 1, Y |-> 1]
     /\ At(0, 0) = White) => result = << 32 >>

\* C3: ImgToASCII of an image of solid black opaque pixels, negative = false,
\* emits the glyph at ramp index 0 for every pixel
C3_BlackIsDensest ==
    (/\ mainPc = "done"
     /\ fn = Plain
     /\ ~negative
     /\ \A x \in Cols, r \in Rows : At(x, r) = Black) =>
        /\ \A x \in Cols, r \in Rows : GlyphOfCell(x, r) = ASCIIChars[1]
        /\ result = Join([r \in 1 .. max.Y |-> [c \in 1 .. max.X |-> ASCIIChars[1]]], Newline)

C3_Witness ==
    /\ mainPc = "done"
    /\ fn = Plain
    /\ ~negative
    /\ max.X >= 2
    /\ max.Y >= 2
    /\ \A x \in Cols, r \in Rows : At(x, r) = Black
    /\ result[1] = 209

\* C5: what is computed for source column x of a row is stored at output
\* column W - x - 1 with invert and at column x without, in ImgToASCII and in
\* ImgToASCIIColoured alike (glyph and colour escape); the column map applied
\* twice gives the column back
C5_MirrorPlacement ==
    (fn \in {Plain, Coloured} /\ mainPc # "start") =>
        \A x \in Cols, r \in Rows :
            LET out == IF invert THEN max.X - x - 1 ELSE x IN
            /\ Len(matrix[r + 1]) = max.X =>
                  /\ matrix[r + 1][out + 1] \in {ZeroCell, CellValue(Message(x, r))}
                  /\ CellColumn([x |-> x, y |-> r]) = out
                  /\ CellColumn([x |-> CellColumn([x |-> x, y |-> r]), y |-> r]) = x
            /\ mainPc = "done" => matrix[r + 1][out + 1] = CellValue(Message(x, r))

C5_Witness ==
    /\ mainPc = "done"
    /\ fn = Coloured
    /\ invert
    /\ max.X = 3
    /\ max.Y >= 1
    /\ matrix[1][1] = CellValue(Message(2, 0))
    /\ matrix[1][3] = CellValue(Message(0, 0))
    /\ matrix[1][1] # matrix[1][3]

\* C6: the string a conversion returns is the same in every interleaving of
\* the row workers and the collector: it is the text the image and the
\* options determine
C6_Deterministic == mainPc = "done" => result = ExpectedText

C6_Witness ==
    /\ mainPc = "done"
    /\ max.Y >= 2
    /\ max.X >= 2
    /\ result = ExpectedText
    /\ matrix[1] # matrix[2]

----------------------------------------------------------------------------
(* Properties of the glyph of one pixel and of the colour codec *)

ChannelSum(p) == p.r + p.g + p.b

\* C4: of two pixels with alpha > 0, the one with the strictly greater channel
\* sum gets a ramp index <= the other's with reverse = false and >= the
\* other's with reverse = true, over the whole range of sums, ends included
C4_ToneMonotone ==
    ("convertRow" \in pxDone /\ px.a > 0) =>
        \A q \in Pixels :
            (q.a > 0 /\ ChannelSum(px) > ChannelSum(q)) =>
                IF ~reverse
                THEN RampIndex(plainPC.char) <= RampIndex(PixelChar(q, 0, 0, reverse).char)
                ELSE RampIndex(plainPC.char) >= RampIndex(PixelChar(q, 0, 0, reverse).char)

\* C7: FromHex(c.Hex()) returns no error and a Colour256 equal to c
C7_HexRoundTrip ==
    hexPc = "parsed" => (fromHex.err = "nil" /\ fromHex.c = Ptr(col))

\* C8: FromColor returns nil exactly when alpha is 0, whatever R, G, B; for
\* alpha > 0 each channel is the 16-bit channel divided by 256, truncated: it
\* is in 0..255, 65535 gives 255, and opaque black gives (0, 0, 0), not nil
C8_FromColor ==
    "FromColor" \in pxDone =>
        /\ fromColor = Nil <=> px.a = 0
        /\ px.a > 0 =>
              /\ Len(fromColor) = 1
              /\ fromColor[1].R = px.r \div 256
              /\ fromColor[1].G = px.g \div 256
              /\ fromColor[1].B = px.b \div 256
              /\ fromColor[1].R \in 0 .. 255
              /\ fromColor[1].G \in 0 .. 255
              /\ fromColor[1].B \in 0 .. 255
              /\ px.r = MaxChannel => fromColor[1].R = 255
              /\ px.g = MaxChannel => fromColor[1].G = 255
              /\ px.b = MaxChannel => fromColor[1].B = 255
              /\ ChannelSum(px) = 0 => fromColor = Ptr(ZeroColour)

C8_Witness ==
    /\ "FromColor" \in pxDone
    /\ px.a = 1
    /\ px.r = MaxChannel
    /\ px.g = 65534
    /\ px.b = 0
    /\ fromColor = Ptr([R |-> 255, G |-> 255, B |-> 0])

----------------------------------------------------------------------------
(* Properties of the scaled size *)

\* C9: whenever Image is called with Width > 0 and Height > 0, whatever the
\* Factor, the image it returns has Width columns and Height rows
C9_ExplicitSize ==
    (scPc = "scaled" /\ imgOpts.Width > 0 /\ imgOpts.Height > 0) =>
        dst = [X |-> imgOpts.Width, Y |-> imgOpts.Height]

\* the least of Factor, Height / sourceHeight, Width / sourceWidth and 1
\* (a quotient by 0 is +Inf, never the least)
FitFactors ==
    {opts.Factor, One}
        \cup (IF src.Y > 0 THEN {Rat(opts.Height, src.Y)} ELSE {})
        \cup (IF src.X > 0 THEN {Rat(opts.Width, src.X)} ELSE {})

MinFitFactor == CHOOSE f \in FitFactors : \A g \in FitFactors : ~RatLess(g, f)

\* C10: FileToWindow with Width > 0, Height > 0 and Factor # 0 sizes the
\* image by factor = min(Factor, Height/sourceHeight, Width/sourceWidth, 1.0)
\* to (round(sourceWidth * factor), round(sourceHeight * factor)); a 2816x1880
\* source with Width 400, Height 110, Factor 1.0 comes out 165 by 110
C10_FitFactor ==
    (/\ scPc = "scaled"
     /\ entry = "FileToWindow"
     /\ opts.Width > 0
     /\ opts.Height > 0
     /\ opts.Factor.n # 0) =>
        /\ RatEq(imgOpts.Factor, MinFitFactor)
        /\ dst = [X |-> RoundMul(src.X, MinFitFactor), Y |-> RoundMul(src.Y, MinFitFactor)]
        /\ (/\ src = ExampleSrc
            /\ opts.Width = ExampleWidth
            /\ opts.Height = ExampleHeight
            /\ opts.Factor = One) => dst = [X |-> 165, Y |-> 110]

C10_Witness ==
    /\ scPc = "scaled"
    /\ entry = "FileToWindow"
    /\ src = ExampleSrc
    /\ opts = [Width |-> ExampleWidth, Height |-> ExampleHeight, Factor |-> Rat(2, 2)]
    /\ dst = [X |-> 165, Y |-> 110]

\* C11: FileToWindow with Width > 0, Height > 0 and Factor > 0 returns an
\* image of at most Width columns and at most Height rows, with no more
\* columns or rows than the source; when the source fits in both bounds and
\* Factor >= 1 the image has the size of the source
C11_FitBound ==
    (/\ scPc = "scaled"
     /\ entry = "FileToWindow"
     /\ opts.Width > 0
     /\ opts.Height > 0
     /\ opts.Factor.n > 0) =>
        /\ dst.X <= opts.Width
        /\ dst.Y <= opts.Height
        /\ dst.X <= src.X
        /\ dst.Y <= src.Y
        /\ (/\ src.X <= opts.Width
            /\ src.Y <= opts.Height
            /\ ~RatLess(opts.Factor, One)) => dst = src

C11_Witness ==
    /\ scPc = "scaled"
    /\ entry = "FileToWindow"
    /\ src = [X |-> 4, Y |-> 3]
    /\ opts = [Width |-> 2, Height |-> 3, Factor |-> Rat(3, 2)]
    /\ imgOpts = [Width |-> 0, Height |-> 0, Factor |-> Rat(2, 4)]
    /\ dst = [X |-> 2, Y |-> 2]

----------------------------------------------------------------------------
(* Properties of the text returned *)

\* the lines of a text: what lies between its newlines
RECURSIVE SplitLines(_)
SplitLines(s) ==
    IF \A i \in 1 .. Len(s) : s[i] # 10 THEN << s >>
    ELSE LET k == CHOOSE i \in 1 .. Len(s) :
                    s[i] = 10 /\ \A j \in 1 .. i - 1 : s[j] # 10
         IN  << SubSeq(s, 1, k - 1) >> \o SplitLines(SubSeq(s, k + 1, Len(s)))

EndsWith(s, suffix) ==
    /\ Len(s) >= Len(suffix)
    /\ SubSeq(s, Len(s) - Len(suffix) + 1, Len(s)) = suffix

\* C12: the text ImgToASCIIColoured and ImgToPreview return for an image of
\* H >= 1 rows has H lines, and every one of them, the last included, ends
\* with the colour reset sequence (before the newline where one follows)
C12_LinesEndWithReset ==
    (mainPc = "done" /\ fn \in {Coloured, Preview} /\ max.Y >= 1) =>
        LET ls == SplitLines(result) IN
        /\ Len(ls) = max.Y
        /\ \A i \in 1 .. Len(ls) : EndsWith(ls[i], ResetColour)

\* C13: the text ImgToASCII returns for an image of W columns and H rows is
\* H lines joined by H - 1 newlines (the empty text for H = 0), the lines in
\* row order from the top, every line of exactly W glyphs: the glyphs of the
\* row in output column order, its trailing spaces included
C13_PlainLayout ==
    (mainPc = "done" /\ fn = Plain) =>
        /\ max.Y = 0 => result = << >>
        /\ max.Y >= 1 =>
              LET ls == SplitLines(result) IN
              /\ Cardinality({ i \in 1 .. Len(result) : result[i] = 10 }) = max.Y - 1
              /\ Len(ls) = max.Y
              /\ \A r \in 1 .. max.Y :
                    /\ Len(ls[r]) = max.X
                    /\ \A c \in 1 .. max.X :
                          ls[r][c] = PixelChar(At(OutCol(c - 1), r - 1), 0, 0, negative).char

C13_Witness ==
    /\ mainPc = "done"
    /\ fn = Plain
    /\ max.X >= 2
    /\ max.Y >= 2
    /\ result[max.X] = 32
    /\ result[max.X + 1] = 10
    /\ result[max.X + 2] # result[1]
    /\ Len(result) = max.X * max.Y + max.Y - 1

----------------------------------------------------------------------------
(* Properties of the fan-in *)

\* every cell written so far was written once, for a message of its own row
\* and of the source column its output column stands for; a cell holds a
\* value exactly when it was written; at the return every cell was written
WriteOncePerCell ==
    /\ \A r \in 1 .. Len(writes) : \A c \in 1 .. Len(writes[r]) :
          /\ Len(writes[r][c]) <= 1
          /\ \A k \in 1 .. Len(writes[r][c]) :
                /\ writes[r][c][k].y = r - 1
                /\ OutCol(writes[r][c][k].x) = c - 1
          /\ Len(writes[r][c]) = 1 <=> matrix[r][c] # ZeroCell
    /\ mainPc = "done" =>
          /\ Len(writes) = max.Y
          /\ \A r \in 1 .. max.Y :
                /\ Len(writes[r]) = max.X
                /\ \A c \in 1 .. max.X : Len(writes[r][c]) = 1

\* a step that changes the value of a cell is a step of the collector
OnlyCollectorWrites ==
    (\E r \in 1 .. Len(matrix), c \in 1 .. max.X :
        /\ r <= Len(matrix')
        /\ c <= Len(matrix[r])
        /\ c <= Len(matrix'[r])
        /\ matrix'[r][c] # matrix[r][c]) => CollectorRecv

\* C14: in every execution of a conversion each of the W*H cells is written
\* exactly once, by the collector only, and the cell written for a message of
\* row worker y lies in row y: none is written twice, none is left unwritten
\* at the return, with invert on or off
C14_WriteOnce == [](WriteOncePerCell) /\ [][OnlyCollectorWrites]_vars

C14_Witness ==
    /\ mainPc = "done"
    /\ invert
    /\ max = [X |-> 3, Y |-> 2]
    /\ writes[1][1] = << [x |-> 2, y |-> 0] >>
    /\ writes[2][3] = << [x |-> 0, y |-> 1] >>
    /\ \A r \in 1 .. 2, c \in 1 .. 3 : Len(writes[r][c]) = 1

\* row worker r has left its loop and called wg.Done()
Finished(r) == worker[r + 1] = max.X + 1

\* C15: the channel is closed only once all H row workers have finished, so
\* that no worker sends on a closed channel; and the main routine has the
\* matrix to read only once the collector has received every one of the W*H
\* messages, stored them, and closed done
C15_FanInOrder ==
    /\ chClosed =>
          /\ Len(worker) = max.Y
          /\ \A r \in Rows : Finished(r)
          /\ wg = 0
    /\ panicked # "send on closed channel"
    /\ doneClosed => (chClosed /\ ch = << >> /\ Written = max.X * max.Y)
    /\ mainPc = "done" =>
          /\ doneClosed
          /\ collector = "exited"
          /\ ch = << >>
          /\ Written = max.X * max.Y

C15_Witness ==
    /\ mainPc = "done"
    /\ max.X * max.Y > Cap
    /\ chClosed
    /\ doneClosed
    /\ \A r \in Rows : Finished(r)
    /\ Written = max.X * max.Y

\* the conversion has returned: every row worker finished, ch closed, done
\* closed by the collector
Returned ==
    /\ mainPc = "done"
    /\ \A r \in Rows : Finished(r)
    /\ chClosed
    /\ doneClosed
    /\ collector = "exited"

\* C16: for every size W >= 0, H >= 0, those with W*H above the channel's
\* capacity W + H included, a conversion scheduled fairly reaches its return
\* with every row worker finished, the channel closed and done signalled; and
\* in every reachable state short of the return some goroutine can step
C16_Terminates ==
    /\ <>Returned
    /\ [](mainPc # "done" => ENABLED Next)

C16_Witness ==
    /\ Returned
    /\ max.X * max.Y > Cap
    /\ fn = Preview

\* row worker r is at its send with pixels left and ch is full: it blocks
SendBlocked(r) ==
    /\ r < Len(worker)
    /\ worker[r + 1] >= 0
    /\ worker[r + 1] < max.X
    /\ ~chClosed
    /\ Len(ch) >= Cap

\* C17 as stated: the capacity rows + columns is enough that in no reachable
\* state a row worker is at its send while the channel is full
C17_NeverBlocked == \A r \in Rows : ~SendBlocked(r)

\* C17, amended: the channel never holds more than rows + columns messages;
\* no row worker finds it full when W*H <= W + H; for larger images a worker
\* can find it full, and then the collector is in its loop with a message
\* to receive
C17_BlockedOnlyWhenLarge ==
    /\ Len(ch) <= max.X + max.Y
    /\ \A r \in Rows :
          SendBlocked(r) =>
              /\ max.X * max.Y > max.X + max.Y
              /\ collector = "range"
              /\ Len(ch) > 0
              /\ ENABLED CollectorRecv

C17_Witness ==
    /\ max = [X |-> 3, Y |-> 2]
    /\ Len(ch) = 5
    /\ SendBlocked(1)
    /\ worker[1] = 3
    /\ collector = "range"

----------------------------------------------------------------------------
(* Properties of Config.Validate *)

\* the two sizing rules, and the flags that give one of them
ExplicitRule(c) == c.Width > 0 /\ c.Height > 0 /\ c.Factor.n = 0
FactorRule(c) == c.Width = 0 /\ c.Height = 0 /\ c.Factor.n > 0
UsableSizing(c) == (c.Width > 0 /\ c.Height > 0) \/ c.Factor.n > 0

\* C18: Validate returns ErrInvalidDimensions, and no image is opened, for
\* every Config without a usable sizing; and whenever it does not return
\* that error the Config it leaves has exactly one sizing rule in effect:
\* Width > 0, Height > 0, Factor = 0, or Width = Height = 0, Factor > 0
C18_SizingResolved ==
    cliPc \in {"validated", "exited", "scaling"} =>
        /\ ~UsableSizing(args) => (valErr = ErrInvalidDimensions /\ ~opened)
        /\ valErr = ErrInvalidDimensions => ~opened
        /\ valErr # ErrInvalidDimensions => (ExplicitRule(conf) # FactorRule(conf))

----------------------------------------------------------------------------
(* Properties of images without pixels *)

----------------------------------------------------------------------------
(* Properties of the ramp lookup *)

FullIntensity(p) == ChannelSum(p) = 3 * MaxChannel

\* C20: for every R, G, B, A and both values of reverse the index the ramp is
\* read at, i mod the ramp's length, lies in 0 .. length - 1 (in convertRow,
\* in convertRowColour and in main.go's convertRow), and i equals the ramp's
\* length only for a pixel of full intensity, R = G = B = 65535
C20_IndexInRange ==
    /\ "convertRow" \in pxDone =>
          /\ ToneIndex(px, reverse) % cLen \in 0 .. cLen - 1
          /\ plainPC.char = ASCIIChars[(ToneIndex(px, reverse) % cLen) + 1]
          /\ ToneIndex(px, reverse) = cLen => FullIntensity(px)
    /\ "convertRowColour" \in pxDone =>
          /\ ToneIndexColour(px, reverse) % cLen \in 0 .. cLen - 1
          /\ colourPC.char = ASCIIChars[(ToneIndexColour(px, reverse) % cLen) + 1]
          /\ ToneIndexColour(px, reverse) = cLen => FullIntensity(px)
    /\ "main.go convertRow" \in pxDone =>
          LET n == Len(OneFileASCIIChars) IN
          /\ OneFileToneIndex(px, reverse) % n \in 0 .. n - 1
          /\ oneFilePC.char = OneFileASCIIChars[(OneFileToneIndex(px, reverse) % n) + 1]
          /\ OneFileToneIndex(px, reverse) = n => FullIntensity(px)

----------------------------------------------------------------------------
(* Properties of the coloured units *)

\* the glyph ImgToASCII emits for pixel p with the conversion's negative
PlainGlyph(p) == PixelChar(p, 0, 0, negative).char

\* C21: the cell ImgToASCIIColoured stores for a pixel with alpha > 0 is the
\* true-colour background escape of the pixel's channels / 256, at once
\* followed by the glyph ImgToASCII emits for the pixel; for a pixel with
\* alpha 0 it is the space alone, without an escape (never the escape of
\* black)
C21_ColouredUnit ==
    (mainPc = "done" /\ fn = Coloured) =>
        \A x \in Cols, r \in Rows :
            LET p == At(x, r)
                cell == matrix[r + 1][OutCol(x) + 1]
            IN  /\ p.a > 0 =>
                      cell = TrueEsc([R |-> p.r \div 256, G |-> p.g \div 256,
                                      B |-> p.b \div 256]) \o << PlainGlyph(p) >>
                /\ p.a = 0 =>
                      /\ cell = << 32 >>
                      /\ cell # TrueEsc(ZeroColour) \o << 32 >>

C21_Witness ==
    /\ mainPc = "done"
    /\ fn = Coloured
    /\ max.X >= 2
    /\ \E x \in Cols, r \in Rows : At(x, r).a = 0 /\ matrix[r + 1][OutCol(x) + 1] = << 32 >>
    /\ \E x \in Cols, r \in Rows :
          /\ At(x, r) = [r |-> 32768, g |-> 16384, b |-> 0, a |-> MaxChannel]
          /\ matrix[r + 1][OutCol(x) + 1] =
                << 27, 91, 52, 56, 59, 50, 59, 49, 50, 56, 59, 54, 52, 59, 48, 109 >>
                    \o << PlainGlyph(At(x, r)) >>

\* the colour escape of pixel p: none for a transparent pixel
PixelEsc(p) == IF FromColor(p) # Nil THEN TrueEsc(FromColor(p)[1]) ELSE << >>

\* s holds the colour reset sequence somewhere
HasReset(s) ==
    \E i \in 1 .. Len(s) - Len(ResetColour) + 1 :
        SubSeq(s, i, i + Len(ResetColour) - 1) = ResetColour

\* C22 as stated: in ImgToPreview a pixel's unit is its colour escape and one
\* space when single is true; when single is false it is the escape, one
\* space, the colour reset, and two more spaces
C22_ResetAfterFirstSpace ==
    (mainPc = "done" /\ fn = Preview) =>
        \A x \in Cols, r \in Rows :
            matrix[r + 1][x + 1] =
                IF single THEN PixelEsc(At(x, r)) \o << 32 >>
                ELSE PixelEsc(At(x, r)) \o << 32 >> \o ResetColour \o << 32, 32 >>

\* C22, amended: in ImgToPreview a pixel's unit is its colour escape and one
\* space when single is true, and the escape and three spaces when single is
\* false; no reset lies inside a unit: the reset comes after it, between the
\* units of a row and before the newline between rows
C22_PreviewUnit ==
    (mainPc = "done" /\ fn = Preview) =>
        /\ \A x \in Cols, r \in Rows :
              /\ matrix[r + 1][x + 1] =
                    PixelEsc(At(x, r)) \o (IF single THEN << 32 >> ELSE << 32, 32, 32 >>)
              /\ ~HasReset(matrix[r + 1][x + 1])
        /\ result =
              Join([r \in 1 .. max.Y |->
                      Join([c \in 1 .. max.X |->
                              PixelEsc(At(c - 1, r - 1))
                                  \o (IF single THEN << 32 >> ELSE << 32, 32, 32 >>)],
                           ResetColour)],
                   ResetColour \o Newline)

C22_Witness ==
    /\ mainPc = "done"
    /\ fn = Preview
    /\ ~single
    /\ max.X >= 2
    /\ max.Y >= 2
    /\ At(0, 0) = Black
    /\ matrix[1][1] = << 27, 91, 52, 56, 59, 50, 59, 48, 59, 48, 59, 48, 109, 32, 32, 32 >>
    /\ SubSeq(result, 1, 20) = matrix[1][1] \o ResetColour

----------------------------------------------------------------------------
(* main.go's imgToASCII against convert.ImgToASCII *)

\* row r of what convert.ImgToASCII(img, negative, false) returns
PackageRow(r) == [c \in 1 .. max.X |-> PixelChar(At(c - 1, r - 1), c - 1, r - 1, negative).char]

\* C23: for every image and every reverse, each row of what main.go's
\* imgToASCII returns is the row convert.ImgToASCII returns for the image
\* (invert = false, negative = reverse) with its trailing spaces removed
C23_OneFileIsTrimmedPackage ==
    (mainPc = "done" /\ fn = OneFileImgToASCII) =>
        /\ \A r \in 1 .. max.Y : TrimRight(matrix[r]) = TrimRight(PackageRow(r))
        /\ result = Join([r \in 1 .. max.Y |-> TrimRight(PackageRow(r))], Newline)

----------------------------------------------------------------------------
(* Properties of the decoding entry points *)

\* the call got as far as the decode, and the decode failed
DecodeFailed ==
    /\ filePc = "ended"
    /\ ~fileIn.decodes
    /\ fileOut.fn = "Raw" \/ (fileIn.opens /\ fileIn.supported)

\* C24: when the decode fails, File, FileToWindow and Raw each return the
\* error and no image, and none goes on to read the bounds of, or to scale,
\* the image that was not decoded
C24_DecodeFailureReported ==
    DecodeFailed =>
        /\ fileOut.panic = "none"
        /\ fileOut.err = "decode"
        /\ fileOut.img = "nil"

----------------------------------------------------------------------------
(* Properties of the grid rows *)

\* row r (from 0) of the grid has been given its max.X cells by the main routine
Allocated(r) ==
    /\ r + 1 \in 1 .. Len(matrix)
    /\ r < y \/ (r = y /\ mainPc = "go")
    /\ Len(matrix[r + 1]) = max.X

\* the main routine has rows left to allocate and workers left to start
StillAllocating == mainPc \in {"loop", "go"} /\ y < max.Y

\* the collector has written at least one cell
CollectorWrote ==
    \E r \in 1 .. Len(writes) : \E c \in 1 .. Len(writes[r]) : Len(writes[r][c]) > 0

\* C25: every message the collector has to handle is for a row the main
\* routine has already allocated with max.X cells, so the collector never
\* indexes an unallocated row, whatever the main routine is still doing
C25_RowAllocatedBeforeCollected ==
    /\ panicked # "index out of range"
    /\ \A k \in 1 .. Len(ch) :
           /\ Allocated(ch[k].y)
           /\ CellColumn(ch[k]) + 1 \in 1 .. Len(matrix[ch[k].y + 1])

\* the collector has written a cell and has a message to handle while the
\* last row of the grid is still nil
C25_Witness ==
    /\ StillAllocating
    /\ max.Y >= 2
    /\ Len(matrix[max.Y]) = 0
    /\ CollectorWrote
    /\ collector = "range"
    /\ Len(ch) > 0
    /\ Allocated(Head(ch).y)

----------------------------------------------------------------------------
(* Properties of asciicam's shutdown *)

\* the signal goroutine has taken the first signal and run to its end
HandlerEnded == sigHandler = "ended"

\* C26 (safety): once the goroutine has handled the first signal the context
\* is cancelled and done has been closed exactly once, no signal is delivered
\* to sCh after sCh is closed, and main returns only after done is closed
C26_ShutdownSafe ==
    /\ doneCloses <= 1
    /\ HandlerEnded => ctxCancelled /\ doneCloses = 1
    /\ process # "panic: send on closed channel"
    /\ camMain = "returned" => doneCloses = 1

\* C26 (liveness): once the frame stream has ended the process comes to an end
CamStreamEndLeadsToEnd == (outputClosed /\ Alive) ~> ~Alive

====
